---- MODULE Spec2Model ----
(***************************************************************************)
(* rusty-loader: the physical frame allocator (physicalmem.rs), the page   *)
(* table manager (paging.rs) and the kernel object loader (kernel.rs).     *)
(*                                                                         *)
(* Addresses are machine words.  The hardware's 9 index bits per level and *)
(* 16 sign-extension bits are scaled down (PAGE_MAP_BITS, HIGH_BITS) so    *)
(* that a word fits the model checker's integers; every mask, size and     *)
(* address that depends on them is computed from them, as in the source.   *)
(***************************************************************************)
EXTENDS Integers, Sequences, FiniteSets, TLC

VARIABLES
    CURRENT_ADDR,   \* physicalmem.rs: the allocation cursor
    halted,         \* an assertion failed: the boot process has stopped
    mem,            \* physical memory holding page tables: frame -> entries
    call,           \* the map call that ran last (arguments, outcome, pre-state)
    prev,           \* the map call before it
    ncalls,         \* map calls so far
    allocLog,       \* the allocator calls made one after another, in order
    pc,             \* per execution context: where it is in an allocator call
    loc,            \* per execution context: the locals of that call
    grants,         \* what the interleaved allocator calls returned, in order
    started,        \* per execution context: allocator calls begun
    object,         \* kernel.rs: what parse returned
    sized,          \* kernel.rs: what mem_size returned
    memory,         \* kernel.rs: the destination buffer handed to load_kernel
    loadInfo        \* kernel.rs: what load_kernel returned

pagingVars == <<mem, call, prev, ncalls>>
allocVars == <<allocLog>>
concVars == <<pc, loc, grants, started>>
elfVars == <<object, sized, memory, loadInfo>>

vars == <<CURRENT_ADDR, halted, pagingVars, allocVars, concVars, elfVars>>

---------------------------------------------------------------------------
(* Bounds of the model *)

\* index bits per table level (9 on the hardware)
PAGE_MAP_BITS == 2
\* word bits above the virtual-address width (16 on the hardware)
HIGH_BITS == 4
\* most pages one map call is asked to map
MaxCount == 2
\* most map calls in one run
MaxCalls == 2
\* most allocator calls in one sequential run
MaxAllocOps == 4
\* most allocator calls one execution context begins
MaxConcCalls == 2
\* most PT_LOAD program headers of a kernel image
MaxPhs == 2
\* most entries of a kernel image's relocation table
MaxRelas == 2

---------------------------------------------------------------------------
(* paging.rs: constants *)

PAGE_BITS == 12
PAGE_MAP_MASK == 2^PAGE_MAP_BITS - 1
VA_BITS == PAGE_BITS + 4 * PAGE_MAP_BITS
WORD_BITS == VA_BITS + HIGH_BITS
WORD == 2^WORD_BITS

PRESENT == 1
WRITABLE == 2
ACCESSED == 32
DIRTY == 64
HUGE_PAGE == 128
EXECUTE_DISABLE == 2^(WORD_BITS - 1)
BLANK == 0

BasePageSize == "BasePageSize"
LargePageSize == "LargePageSize"
PageSizes == {BasePageSize, LargePageSize}

BasePageSize_SIZE == 4096
LargePageSize_SIZE == 2^(PAGE_BITS + PAGE_MAP_BITS)

SIZE(S) == IF S = BasePageSize THEN BasePageSize_SIZE ELSE LargePageSize_SIZE
MAP_LEVEL(S) == IF S = BasePageSize THEN 0 ELSE 1
MAP_EXTRA_FLAG(S) == IF S = BasePageSize THEN BLANK ELSE HUGE_PAGE

\* the root table's virtual address: every index is the self-map slot
PML4_ADDRESS == WORD - 2^PAGE_BITS

---------------------------------------------------------------------------
(* Bit operations on words *)

RECURSIVE BitOr(_, _)
BitOr(a, b) ==
    IF a = 0 THEN b
    ELSE IF b = 0 THEN a
    ELSE (IF a % 2 = 1 \/ b % 2 = 1 THEN 1 ELSE 0) + 2 * BitOr(a \div 2, b \div 2)

RECURSIVE BitAnd(_, _)
BitAnd(a, b) ==
    IF a = 0 \/ b = 0 THEN 0
    ELSE (IF a % 2 = 1 /\ b % 2 = 1 THEN 1 ELSE 0) + 2 * BitAnd(a \div 2, b \div 2)

\* flags.contains(f)
contains(flags, f) == BitAnd(flags, f) = f

\* align_down!(value, alignment)
align_down(value, alignment) == value - (value % alignment)

\* x << n on a word (bits shifted out are lost)
Shl(x, n) == (x % 2^(WORD_BITS - n)) * 2^n

---------------------------------------------------------------------------
(* paging.rs: PageTableEntry *)

\* the content of memory that was never written as a page table
Unknown == -1

is_present(e) == BitAnd(e, PRESENT) # 0

\* a set that checks the 4 KiB boundary whatever the flags
set_aligned_base_only(physical_address, flags) ==
    physical_address % BasePageSize_SIZE = 0

\* a set without its assertions
set_unchecked(physical_address, flags) == TRUE

\* the assertion of PageTableEntry::set
set_aligned(physical_address, flags) ==
    IF contains(flags, HUGE_PAGE)
    THEN physical_address % LargePageSize_SIZE = 0
    ELSE physical_address % BasePageSize_SIZE = 0

\* the value PageTableEntry::set stores
set(physical_address, flags) ==
    BitOr(physical_address, BitOr(BitOr(PRESENT, ACCESSED), flags))

\* the physical address an entry carries (the bits between the low flags
\* and the execute-disable bit)
AddrField(e) == (e % 2^(WORD_BITS - 1)) - (e % 2^PAGE_BITS)

---------------------------------------------------------------------------
(* paging.rs: Page *)

NonCanonicalStart == 2^(VA_BITS - 1)
NonCanonicalEnd == WORD - 2^(VA_BITS - 1)

is_valid_address(virtual_address) ==
    ~(virtual_address >= NonCanonicalStart /\ virtual_address < NonCanonicalEnd)

\* Page::including_address, after its assertion
including_address(S, virtual_address) == align_down(virtual_address, SIZE(S))

\* Page::table_index::<L>, after its assertion
table_index(page, L) ==
    ((page \div 2^PAGE_BITS) \div 2^(L * PAGE_MAP_BITS)) % (PAGE_MAP_MASK + 1)

---------------------------------------------------------------------------
(* Physical memory and the self-mapped hierarchy *)

Indices == 0 .. PAGE_MAP_MASK

\* where the boot code put the root table, and where init() points the cursor
RootFrame == BasePageSize_SIZE
FirstFreeFrame == 2 * BasePageSize_SIZE

ZeroTable == [i \in Indices |-> 0]

ReadEntry(m, f, i) == IF f \in DOMAIN m THEN m[f][i] ELSE Unknown

WriteEntry(m, f, i, v) ==
    [g \in DOMAIN m \cup {f} |->
        IF g = f THEN [j \in Indices |-> IF j = i THEN v ELSE ReadEntry(m, f, j)]
        ELSE m[g]]

WriteTable(m, f, t) == [g \in DOMAIN m \cup {f} |-> IF g = f THEN t ELSE m[g]]

Fault == -1

\* The processor's translation of a virtual address, from the root frame
\* down: what a dereference of a table pointer reads and writes.
RECURSIVE Walk(_, _, _, _)
Walk(m, frame, va, L) ==
    LET e == ReadEntry(m, frame, table_index(va, L))
        span == 2^(PAGE_BITS + L * PAGE_MAP_BITS)
    IN  IF e = Unknown \/ ~is_present(e) THEN Fault
        ELSE IF L = 0 \/ (L \in {1, 2} /\ contains(e, HUGE_PAGE))
             THEN align_down(AddrField(e), span) + (va % span)
        ELSE Walk(m, AddrField(e), va, L - 1)

Translate(m, va) == Walk(m, RootFrame, va, 3)

\* PageTable::subtable: the address computed for the next table
subtable(table_address, index) ==
    BitOr(Shl(table_address, PAGE_MAP_BITS), Shl(index, PAGE_BITS))

---------------------------------------------------------------------------
(* physicalmem.rs: the allocator, one call at a time *)

\* an allocate that asserts on its size only
allocate_accepts_size_only(cur, size) == size > 0 /\ size % BasePageSize_SIZE = 0

\* the three assertions of allocate(size)
allocate_accepts(cur, size) ==
    size > 0 /\ size % BasePageSize_SIZE = 0 /\ cur # 0

\* an allocate that returns what fetch_add left in the cursor
allocate_result_new(cur, size) == (cur + size) % WORD

\* fetch_add: the value returned is the old cursor
allocate_result(cur, size) == cur

allocate_cursor(cur, size) == (cur + size) % WORD

\* FrameAlloc::allocate_frame: the assertion on the loaded cursor
allocate_frame_accepts(cur) == cur # 0

\* an allocate_frame that returns the frame containing the cursor
allocate_frame_containing(S, cur) == align_down(cur, SIZE(S))

\* FrameAlloc::allocate_frame: the frame returned for the loaded cursor,
\* PhysFrame::containing_address moved up by one frame unless it starts there
allocate_frame_result(S, cur) ==
    IF align_down(cur, SIZE(S)) = cur THEN cur ELSE align_down(cur, SIZE(S)) + SIZE(S)

\* FrameAlloc::allocate_frame: the value stored to the cursor
allocate_frame_cursor(S, cur) == (allocate_frame_result(S, cur) + SIZE(S)) % WORD

---------------------------------------------------------------------------
(* paging.rs: mapping.  A walk threads a record through the hierarchy:     *)
(*   mem, cur   page-table memory and allocator cursor                     *)
(*   flushed    the pages flushed from the TLB, in order                   *)
(*   created    the frames taken from the allocator, in order              *)
(*   visited    the table levels visited for the page mapped last          *)
(*   installed  the leaf entries written, in order: table frame, index,    *)
(*              level and the value stored                                 *)
(*   descents   the steps down from a table to its subtable, in order      *)
(*   level_failed  whether an assertion on the table level has failed      *)
(*   status     "ok", or "abort" once an assertion has failed              *)
(*   unknown    whether an entry was read from memory that was never       *)
(*              written as a page table                                    *)

Abort(st) == [st EXCEPT !.status = "abort"]

\* assert!(L::LEVEL >= S::MAP_LEVEL) or assert_eq!(L::LEVEL, S::MAP_LEVEL) fails
AbortLevel(st) == [st EXCEPT !.status = "abort", !.level_failed = TRUE]

\* what reading an entry tells the code about presence; g stands for the
\* bit read from memory that was never written as a page table
present_bit(e, g) == IF e = Unknown THEN g ELSE is_present(e)

\* the flags map_page_in_this_table passes to set
leaf_flags(S, flags) == BitOr(DIRTY, BitOr(MAP_EXTRA_FLAG(S), flags))

\* a leaf step that reads the entry's presence after set
flush_read_after_set(e, g) == TRUE

\* whether the leaf step flushes: the entry's presence read before set
flush_needed(e, g) == present_bit(e, g)

\* LocallyMappable::map_page_in_this_table for the table of level L at
\* virtual address T
map_page_in_this_table(st, L, T, S, page, physical_address, flags, g) ==
    LET f == Translate(st.mem, T)
        index == table_index(page, L)
        e == ReadEntry(st.mem, f, index)
        flush == flush_needed(e, g)
        fl == leaf_flags(S, flags)
    IN  IF L # MAP_LEVEL(S) THEN AbortLevel(st)
        ELSE IF f = Fault THEN Abort(st)
        ELSE IF ~set_aligned(physical_address, fl) THEN Abort(st)
        ELSE [st EXCEPT
                !.mem = WriteEntry(st.mem, f, index, set(physical_address, fl)),
                !.flushed = IF flush THEN Append(@, page) ELSE @,
                !.visited = Append(@, L),
                !.installed = Append(@, [frame |-> f, index |-> index, level |-> L,
                                         page |-> page, path |-> Append(st.visited, L),
                                         entry |-> set(physical_address, fl)]),
                !.unknown = @ \/ e = Unknown]

\* a subtable made without marking its entries unused
create_subtable_unzeroed(st, f, T, index) ==
    LET pa == allocate_result(st.cur, BasePageSize_SIZE)
        st1 == [st EXCEPT !.cur = allocate_cursor(st.cur, BasePageSize_SIZE),
                          !.created = Append(@, pa)]
    IN  IF ~allocate_accepts(st.cur, BasePageSize_SIZE) THEN Abort(st)
        ELSE IF ~set_aligned(pa, WRITABLE) THEN Abort(st1)
        ELSE [st1 EXCEPT !.mem = WriteEntry(st.mem, f, index, set(pa, WRITABLE))]

\* the step of Mappable::map_page that makes the missing subtable: allocate
\* a frame, point the entry at it, zero the table behind it
create_subtable(st, f, T, index) ==
    LET pa == allocate_result(st.cur, BasePageSize_SIZE)
        st1 == [st EXCEPT !.cur = allocate_cursor(st.cur, BasePageSize_SIZE),
                          !.created = Append(@, pa)]
        m1 == WriteEntry(st.mem, f, index, set(pa, WRITABLE))
        sf == Translate(m1, subtable(T, index))
    IN  IF ~allocate_accepts(st.cur, BasePageSize_SIZE) THEN Abort(st)
        ELSE IF ~set_aligned(pa, WRITABLE) THEN Abort(st1)
        ELSE IF sf = Fault THEN Abort([st1 EXCEPT !.mem = m1])
        ELSE [st1 EXCEPT !.mem = WriteTable(m1, sf, ZeroTable)]

\* a walk that descends to the leaf tables whatever the page size
descends_to_leaf(L, S) == L > 0

\* whether the walk descends from level L for a page of size S
descends(L, S) == L > MAP_LEVEL(S)

\* Mappable::map_page for the table of level L at virtual address T
RECURSIVE map_page(_, _, _, _, _, _, _, _)
map_page(st, L, T, S, page, physical_address, flags, g) ==
    IF st.status # "ok" THEN st
    ELSE IF L = 0 THEN
        map_page_in_this_table(st, L, T, S, page, physical_address, flags, g)
    ELSE IF L < MAP_LEVEL(S) THEN AbortLevel(st)
    ELSE IF descends(L, S) THEN
        LET f == Translate(st.mem, T)
            index == table_index(page, L)
            e == ReadEntry(st.mem, f, index)
            st1 == IF f = Fault THEN Abort(st)
                   ELSE IF ~present_bit(e, g) THEN create_subtable(st, f, T, index)
                   ELSE st
            st2 == [st1 EXCEPT !.visited = Append(@, L),
                               !.descents = Append(@,
                                    [level |-> L, frame |-> f, index |-> index,
                                     before |-> e, was_present |-> present_bit(e, g),
                                     after |-> ReadEntry(st1.mem, f, index),
                                     next |-> Translate(st1.mem, subtable(T, index)),
                                     taken |-> Len(st1.created) - Len(st.created),
                                     cur_before |-> st.cur, cur_after |-> st1.cur,
                                     status |-> st1.status,
                                     mem |-> st1.mem]),
                               !.unknown = @ \/ e = Unknown]
        IN  map_page(st2, L - 1, subtable(T, index), S, page, physical_address, flags, g)
    ELSE map_page_in_this_table(st, L, T, S, page, physical_address, flags, g)

\* PageTable::map_pages over PageIter: pages current..last, one S apart
RECURSIVE map_pages(_, _, _, _, _, _, _)
map_pages(st, S, current, last, physical_address, flags, g) ==
    IF st.status # "ok" \/ current > last THEN st
    ELSE map_pages(
            map_page([st EXCEPT !.visited = <<>>], 3, PML4_ADDRESS, S, current,
                     physical_address, flags, g),
            S, current + SIZE(S), last, physical_address + SIZE(S), flags, g)

\* get_page_range: the address of the last page
last_address(S, virtual_address, count) ==
    (virtual_address + (count - 1) * SIZE(S)) % WORD

\* a get_page_range that validates the first address only
range_first_checked(S, virtual_address, count) ==
    /\ is_valid_address(virtual_address)
    /\ including_address(S, virtual_address)
         <= including_address(S, last_address(S, virtual_address, count))

\* get_page_range: its three assertions
range_accepted(S, virtual_address, count) ==
    /\ is_valid_address(virtual_address)
    /\ is_valid_address(last_address(S, virtual_address, count))
    /\ including_address(S, virtual_address)
         <= including_address(S, last_address(S, virtual_address, count))

\* map::<S>(virtual_address, physical_address, count, flags)
map(st, S, virtual_address, physical_address, count, flags, g) ==
    IF ~range_accepted(S, virtual_address, count) THEN Abort(st)
    ELSE map_pages(st, S, including_address(S, virtual_address),
                   including_address(S, last_address(S, virtual_address, count)),
                   physical_address, flags, g)


---------------------------------------------------------------------------
(* The boot sequence's calls into the allocator and the page table manager *)

\* a physical region for mapped data, clear of the frames the allocator
\* hands out for tables
DataFrame == 16 * LargePageSize_SIZE

\* virtual addresses: a page-aligned one, an unaligned one in the last page
\* below the non-canonical hole, and one inside the hole
VirtInputs ==
    {0, NonCanonicalStart - BasePageSize_SIZE + 16, NonCanonicalStart + 1}
\* physical addresses: two aligned to S and one off by half a page
PhysInputs(S) == {DataFrame, DataFrame + SIZE(S), DataFrame + SIZE(S) \div 2}
FlagInputs == {BLANK, HUGE_PAGE}

NoCall ==
    [op |-> "none", S |-> BasePageSize, virtual_address |-> 0,
     physical_address |-> 0, count |-> 0, flags |-> BLANK, status |-> "ok",
     flushed |-> <<>>, created |-> <<>>, visited |-> <<>>, unknown |-> FALSE,
     installed |-> <<>>, descents |-> <<>>, level_failed |-> FALSE,
     preMem |-> <<>>, preCur |-> 0]

\* the root table as the boot code leaves it: empty but for the self-map in
\* its last slot
BootMem ==
    [f \in {RootFrame} |->
        [i \in Indices |-> IF i = PAGE_MAP_MASK THEN set(RootFrame, WRITABLE) ELSE 0]]

Contexts == {"main", "irq"}

PagingIdle == mem = BootMem /\ call = NoCall /\ prev = NoCall /\ ncalls = 0
AllocIdle == allocLog = <<>>
ConcIdle ==
    /\ pc = [c \in Contexts |-> "idle"]
    /\ loc = [c \in Contexts |-> [size |-> 0, frame |-> 0]]
    /\ grants = <<>>
    /\ started = [c \in Contexts |-> 0]

NoResult == [status |-> "none"]
NoMemory == [base |-> 0, bytes |-> <<>>, before |-> <<>>]
ElfIdle ==
    /\ object = NoResult
    /\ sized = NoResult
    /\ memory = NoMemory
    /\ loadInfo = NoResult

\* static CURRENT_ADDR: AtomicU64 = AtomicU64::new(0)
Init ==
    /\ CURRENT_ADDR = 0
    /\ halted = FALSE
    /\ PagingIdle
    /\ AllocIdle
    /\ ConcIdle
    /\ ElfIdle

\* physicalmem::init(address)
init(address) ==
    /\ ~halted
    /\ CURRENT_ADDR = 0
    /\ CURRENT_ADDR' = address
    /\ UNCHANGED <<elfVars, halted, pagingVars, allocVars, concVars>>

\* the walk's record at the start of a call
Start ==
    [mem |-> mem, cur |-> CURRENT_ADDR, flushed |-> <<>>, created |-> <<>>,
     visited |-> <<>>, installed |-> <<>>, descents |-> <<>>, status |-> "ok",
     level_failed |-> FALSE, unknown |-> FALSE]

\* paging::map::<S>(virtual_address, physical_address, count, flags); an
\* entry read from memory that was never written as a page table may read
\* as present or as not present
Map(S, virtual_address, physical_address, count, flags) ==
    /\ ~halted
    /\ ncalls < MaxCalls
    /\ \E st0 \in {map(Start, S, virtual_address, physical_address, count, flags, FALSE)} :
       \E st \in (IF st0.unknown
                  THEN {st0, map(Start, S, virtual_address, physical_address, count,
                                 flags, TRUE)}
                  ELSE {st0}) :
           /\ mem' = st.mem
           /\ CURRENT_ADDR' = st.cur
           /\ call' = [op |-> "map", S |-> S, virtual_address |-> virtual_address,
                       physical_address |-> physical_address, count |-> count,
                       flags |-> flags, status |-> st.status,
                       flushed |-> st.flushed, created |-> st.created,
                       visited |-> st.visited, unknown |-> st.unknown,
                       installed |-> st.installed, descents |-> st.descents,
                       level_failed |-> st.level_failed,
                       preMem |-> mem, preCur |-> CURRENT_ADDR]
           /\ halted' = (st.status = "abort")
    /\ prev' = call
    /\ ncalls' = ncalls + 1
    /\ UNCHANGED <<elfVars, allocVars, concVars>>

Next ==
    \/ init(FirstFreeFrame)
    \/ \E S \in PageSizes :
          \E v \in VirtInputs, p \in PhysInputs(S), c \in 1 .. MaxCount,
             fl \in FlagInputs :
                Map(S, v, p, c, fl)

Spec == Init /\ [][Next]_vars

---------------------------------------------------------------------------
(* What the processor finds for a virtual address: the level and the entry *)
(* at which its walk from the root ends                                    *)

RECURSIVE WalkEnd(_, _, _, _)
WalkEnd(m, frame, va, L) ==
    LET e == ReadEntry(m, frame, table_index(va, L))
    IN  IF e = Unknown THEN [level |-> L, entry |-> 0, known |-> FALSE]
        ELSE IF ~is_present(e) \/ L = 0 \/ (L \in {1, 2} /\ contains(e, HUGE_PAGE))
        THEN [level |-> L, entry |-> e, known |-> TRUE]
        ELSE WalkEnd(m, AddrField(e), va, L - 1)

Mapped(m, S, va, pa) ==
    LET w == WalkEnd(m, RootFrame, va, 3)
    IN  w.known /\ w.level = MAP_LEVEL(S) /\ is_present(w.entry)
        /\ AddrField(w.entry) = pa

\* C1: after map<S>(V, P, count, flags) returns, from any reachable state,
\* the walk for every page V + i*S ends at a present entry of level
\* S::MAP_LEVEL whose address is P + i*S.
C1_RangeCoverage ==
    (call.op = "map" /\ call.status = "ok") =>
        \A i \in 0 .. call.count - 1 :
            Mapped(mem, call.S, call.virtual_address + i * SIZE(call.S),
                   call.physical_address + i * SIZE(call.S))

\* the page of size S that holds a virtual address
PageOf(S, va) == va - (va % SIZE(S))

InHole(va) == va >= 2^(VA_BITS - 1) /\ va < WORD - 2^(VA_BITS - 1)

\* the entry for va in the table of level S::MAP_LEVEL is reached through
\* subtable pointers only and is not present
RECURSIVE AbsentAt(_, _, _, _, _)
AbsentAt(m, frame, va, L, target) ==
    LET e == ReadEntry(m, frame, table_index(va, L))
    IN  IF e = Unknown THEN FALSE
        ELSE IF L = target THEN ~is_present(e)
        ELSE IF ~is_present(e) THEN TRUE
        ELSE IF contains(e, HUGE_PAGE) THEN FALSE
        ELSE AbsentAt(m, AddrField(e), va, L - 1, target)

NotPresent(m, S, va) == AbsentAt(m, RootFrame, va, 3, MAP_LEVEL(S))

SamePageTwice ==
    /\ prev.op = "map" /\ call.op = "map"
    /\ prev.status = "ok" /\ call.status = "ok"
    /\ prev.S = call.S
    /\ prev.count = 1 /\ call.count = 1
    /\ PageOf(prev.S, prev.virtual_address) = PageOf(call.S, call.virtual_address)
    /\ prev.physical_address # call.physical_address
    /\ NotPresent(prev.preMem, prev.S, prev.virtual_address)

\* C4: mapping the same page twice with different physical addresses, the
\* entry not being present before the first call, leaves the entry at the
\* second address, with no flush in the first call and exactly one flush, of
\* that page, in the second.
C4_RemapFlushesOnce ==
    SamePageTwice =>
        /\ prev.flushed = <<>>
        /\ call.flushed = <<PageOf(call.S, call.virtual_address)>>
        /\ Mapped(mem, call.S, call.virtual_address, call.physical_address)

C4_Witness ==
    /\ SamePageTwice
    /\ call.flushed = <<PageOf(call.S, call.virtual_address)>>

\* C5 as stated: an accepted map<S> call has both its virtual and its
\* physical address a multiple of S::SIZE.
C5_BothAligned ==
    (call.op = "map" /\ call.status = "ok") =>
        /\ call.virtual_address % SIZE(call.S) = 0
        /\ call.physical_address % SIZE(call.S) = 0

\* C5 amended: an accepted map<S> call has its physical address a multiple
\* of S::SIZE (the virtual address is rounded down, not checked).
C5_PhysicalAligned ==
    (call.op = "map" /\ call.status = "ok") =>
        call.physical_address % SIZE(call.S) = 0

C5_Witness ==
    /\ call.op = "map" /\ call.status = "ok"
    /\ call.virtual_address % SIZE(call.S) # 0
    /\ Mapped(mem, call.S, PageOf(call.S, call.virtual_address), call.physical_address)

\* C6: a map call whose first or last page address lies in the
\* non-canonical hole aborts with no page-table entry modified and no frame
\* allocated.
C6_HoleRejectedUntouched ==
    (call.op = "map" /\
     (InHole(call.virtual_address) \/
      InHole(call.virtual_address + (call.count - 1) * SIZE(call.S)))) =>
        /\ call.status = "abort"
        /\ mem = call.preMem
        /\ CURRENT_ADDR = call.preCur
        /\ call.created = <<>>

C6_Witness ==
    /\ call.op = "map"
    /\ ~InHole(call.virtual_address)
    /\ InHole(call.virtual_address + (call.count - 1) * SIZE(call.S))
    /\ call.status = "abort"
    /\ call.preCur # 0

---------------------------------------------------------------------------
(* The allocator called by one execution context, call after call *)

InitInputs == {0, FirstFreeFrame, FirstFreeFrame + 16}
SizeInputs == {0, BasePageSize_SIZE, 2 * BasePageSize_SIZE, BasePageSize_SIZE + 8}

LogEntry(op, arg, ret, status) ==
    [op |-> op, arg |-> arg, ret |-> ret, status |-> status,
     pre |-> CURRENT_ADDR, post |-> CURRENT_ADDR']

\* physicalmem::init(address)
AllocInit(address) ==
    /\ ~halted
    /\ Len(allocLog) < MaxAllocOps
    /\ CURRENT_ADDR' = address
    /\ allocLog' = Append(allocLog, LogEntry("init", address, 0, "ok"))
    /\ UNCHANGED <<elfVars, halted, pagingVars, concVars>>

\* physicalmem::allocate(size)
Allocate(size) ==
    /\ ~halted
    /\ Len(allocLog) < MaxAllocOps
    /\ IF allocate_accepts(CURRENT_ADDR, size)
       THEN /\ CURRENT_ADDR' = allocate_cursor(CURRENT_ADDR, size)
            /\ allocLog' = Append(allocLog,
                    LogEntry("allocate", size, allocate_result(CURRENT_ADDR, size), "ok"))
            /\ UNCHANGED halted
       ELSE /\ CURRENT_ADDR' = CURRENT_ADDR
            /\ allocLog' = Append(allocLog, LogEntry("allocate", size, 0, "abort"))
            /\ halted' = TRUE
    /\ UNCHANGED <<elfVars, pagingVars, concVars>>

\* FrameAlloc::allocate_frame() for page size S
AllocateFrame(S) ==
    /\ ~halted
    /\ Len(allocLog) < MaxAllocOps
    /\ IF allocate_frame_accepts(CURRENT_ADDR)
       THEN /\ CURRENT_ADDR' = allocate_frame_cursor(S, CURRENT_ADDR)
            /\ allocLog' = Append(allocLog,
                    LogEntry("allocate_frame", SIZE(S),
                             allocate_frame_result(S, CURRENT_ADDR), "ok"))
            /\ UNCHANGED halted
       ELSE /\ CURRENT_ADDR' = CURRENT_ADDR
            /\ allocLog' = Append(allocLog, LogEntry("allocate_frame", SIZE(S), 0, "abort"))
            /\ halted' = TRUE
    /\ UNCHANGED <<elfVars, pagingVars, concVars>>

NextAlloc ==
    \/ \E a \in InitInputs : AllocInit(a)
    \/ \E size \in SizeInputs : Allocate(size)
    \/ \E S \in PageSizes : AllocateFrame(S)

SpecAlloc == Init /\ [][NextAlloc]_vars

\* the allocate(size) calls that returned
Returned(i) == allocLog[i].op = "allocate" /\ allocLog[i].status = "ok"

\* no init between calls i and j
SameInit(i, j) == \A k \in i .. j : allocLog[k].op # "init"

\* C2: for the allocate(size) calls after one init(a): each returns the
\* cursor held just before it (the first returns a), the cursor advances by
\* exactly size, returned addresses are non-decreasing and the ranges
\* [ret, ret+size) of two calls never overlap.
C2_AllocatorMonotonic ==
    \A i \in 1 .. Len(allocLog) :
        Returned(i) =>
            /\ allocLog[i].ret = allocLog[i].pre
            /\ allocLog[i].post = allocLog[i].pre + allocLog[i].arg
            /\ (i > 1 /\ allocLog[i - 1].op = "init") =>
                    allocLog[i].ret = allocLog[i - 1].arg
            /\ \A j \in (i + 1) .. Len(allocLog) :
                    (Returned(j) /\ SameInit(i, j)) =>
                        /\ allocLog[i].ret <= allocLog[j].ret
                        /\ allocLog[i].ret + allocLog[i].arg <= allocLog[j].ret

C2_Witness ==
    /\ Len(allocLog) >= 3
    /\ allocLog[1].op = "init"
    /\ Returned(2) /\ Returned(3)
    /\ allocLog[2].ret = allocLog[1].arg
    /\ allocLog[3].ret = allocLog[2].ret + allocLog[2].arg

---------------------------------------------------------------------------
(* The allocator called from two execution contexts: the boot thread       *)
(* ("main") and an interrupt handler ("irq") that preempts it between two  *)
(* of its atomic operations and runs to completion.  A step is one atomic  *)
(* load, store or fetch_add on CURRENT_ADDR.                               *)

ConcSizeInputs == {BasePageSize_SIZE, 2 * BasePageSize_SIZE}

\* a context may take a step: the handler always, the boot thread only
\* while no handler is running
Runs(c) == ~halted /\ (c = "irq" \/ pc["irq"] = "idle")

\* the boot thread's init(address): one store
ConcInit(address) ==
    /\ Runs("main")
    /\ pc["main"] = "idle"
    /\ CURRENT_ADDR = 0
    /\ CURRENT_ADDR' = address
    /\ UNCHANGED <<elfVars, halted, pagingVars, allocVars, concVars>>

\* allocate(size) is entered: the assertions on size
AllocateEnter(c, size) ==
    /\ Runs(c)
    /\ pc[c] = "idle"
    /\ started[c] < MaxConcCalls
    /\ started' = [started EXCEPT ![c] = @ + 1]
    /\ loc' = [loc EXCEPT ![c] = [size |-> size, frame |-> 0]]
    /\ IF size > 0 /\ size % BasePageSize_SIZE = 0
       THEN pc' = [pc EXCEPT ![c] = "allocate_load"] /\ UNCHANGED halted
       ELSE pc' = pc /\ halted' = TRUE
    /\ UNCHANGED <<elfVars, CURRENT_ADDR, grants, pagingVars, allocVars>>

\* allocate: assert_ne!(0, CURRENT_ADDR.load(Relaxed))
AllocateLoad(c) ==
    /\ Runs(c)
    /\ pc[c] = "allocate_load"
    /\ IF CURRENT_ADDR # 0
       THEN pc' = [pc EXCEPT ![c] = "allocate_add"] /\ UNCHANGED halted
       ELSE pc' = pc /\ halted' = TRUE
    /\ UNCHANGED <<elfVars, CURRENT_ADDR, loc, grants, started, pagingVars, allocVars>>

\* allocate: CURRENT_ADDR.fetch_add(size, Relaxed), and return
AllocateAdd(c) ==
    /\ Runs(c)
    /\ pc[c] = "allocate_add"
    /\ CURRENT_ADDR' = allocate_cursor(CURRENT_ADDR, loc[c].size)
    /\ grants' = Append(grants,
            [ctx |-> c, op |-> "allocate",
             ret |-> allocate_result(CURRENT_ADDR, loc[c].size), size |-> loc[c].size])
    /\ pc' = [pc EXCEPT ![c] = "idle"]
    /\ UNCHANGED <<elfVars, halted, loc, started, pagingVars, allocVars>>

\* allocate_frame::<S>: CURRENT_ADDR.load(Relaxed), the assertion, and the
\* frame computed from the loaded value
FrameLoad(c, S) ==
    /\ Runs(c)
    /\ pc[c] = "idle"
    /\ started[c] < MaxConcCalls
    /\ started' = [started EXCEPT ![c] = @ + 1]
    /\ IF allocate_frame_accepts(CURRENT_ADDR)
       THEN /\ loc' = [loc EXCEPT ![c] =
                    [size |-> SIZE(S), frame |-> allocate_frame_result(S, CURRENT_ADDR)]]
            /\ pc' = [pc EXCEPT ![c] = "frame_store"]
            /\ UNCHANGED halted
       ELSE loc' = loc /\ pc' = pc /\ halted' = TRUE
    /\ UNCHANGED <<elfVars, CURRENT_ADDR, grants, pagingVars, allocVars>>

\* allocate_frame: CURRENT_ADDR.store(frame start + size, Relaxed), and return
FrameStore(c) ==
    /\ Runs(c)
    /\ pc[c] = "frame_store"
    /\ CURRENT_ADDR' = (loc[c].frame + loc[c].size) % WORD
    /\ grants' = Append(grants,
            [ctx |-> c, op |-> "allocate_frame", ret |-> loc[c].frame,
             size |-> loc[c].size])
    /\ pc' = [pc EXCEPT ![c] = "idle"]
    /\ UNCHANGED <<elfVars, halted, loc, started, pagingVars, allocVars>>

NextConc ==
    \/ ConcInit(FirstFreeFrame)
    \/ \E c \in Contexts, size \in ConcSizeInputs : AllocateEnter(c, size)
    \/ \E c \in Contexts : AllocateLoad(c)
    \/ \E c \in Contexts : AllocateAdd(c)
    \/ \E c \in Contexts, S \in PageSizes : FrameLoad(c, S)
    \/ \E c \in Contexts : FrameStore(c)

SpecConc == Init /\ [][NextConc]_vars

\* C3: no two allocations made by the interleaved contexts return
\* overlapping physical ranges.
C3_NoOverlap ==
    \A i, j \in 1 .. Len(grants) :
        i < j =>
            \/ grants[i].ret + grants[i].size <= grants[j].ret
            \/ grants[j].ret + grants[j].size <= grants[i].ret

---------------------------------------------------------------------------
(* kernel.rs: the kernel object loader.                                     *)
(*                                                                          *)
(* A kernel image is its file content plus the typed views the loader takes *)
(* of it: the header, the program headers, and the tables of dynamic and    *)
(* relocation entries.  The file content is a sequence of cells, one per    *)
(* byte: a plain data byte is its value 0 .. 255, a byte of a table entry   *)
(* is kept symbolic as 256 + its position in the table, so that copying a   *)
(* segment moves it verbatim and decoding an entry recognises it.  The      *)
(* header and the program-header table lie ahead of the cells and are read  *)
(* successfully; file offsets count from the first cell.                    *)

SIZEOF_DYN == 16
SIZEOF_RELA == 24
\* mem::size_of_val(&relocated), relocated: i64
SIZEOF_I64 == 8
ELF_ARCH == "EM_X86_64"

\* the first and the last index of a program header of the given type,
\* 0 when there is none: iter().find(..) and iter().rev().find(..)
find(phs, p_type) ==
    IF \E i \in 1 .. Len(phs) : phs[i].p_type = p_type
    THEN CHOOSE i \in 1 .. Len(phs) :
            /\ phs[i].p_type = p_type
            /\ \A j \in 1 .. (i - 1) : phs[j].p_type # p_type
    ELSE 0

rev_find(phs, p_type) ==
    IF \E i \in 1 .. Len(phs) : phs[i].p_type = p_type
    THEN CHOOSE i \in 1 .. Len(phs) :
            /\ phs[i].p_type = p_type
            /\ \A j \in (i + 1) .. Len(phs) : phs[j].p_type # p_type
    ELSE 0

\* the cells of table entry k (from 1) of a table whose first cell is `first`
EntryCells(first, size, k) == [j \in 1 .. size |-> first + size * (k - 1) + (j - 1)]
DynCells(k) == EntryCells(256, SIZEOF_DYN, k)
RelaCells(k) == EntryCells(256 * 256, SIZEOF_RELA, k)

\* &elf[start..] taken as len entries of the given size: the slice and the
\* conversion succeed iff the file holds that many bytes from start
slice_fits(cells, start, len, size) ==
    start <= Len(cells) /\ start + len * size <= Len(cells)

\* the entry decoded from the size cells that follow offset start
Dyn_from_bytes(elf, start) ==
    LET c == SubSeq(elf.cells, start + 1, start + SIZEOF_DYN) IN
    IF \E k \in 1 .. Len(elf.dynTable) : c = DynCells(k)
    THEN elf.dynTable[CHOOSE k \in 1 .. Len(elf.dynTable) : c = DynCells(k)]
    ELSE [d_tag |-> "DT_OTHER", d_val |-> 0]

Rela_from_bytes(elf, start) ==
    LET c == SubSeq(elf.cells, start + 1, start + SIZEOF_RELA) IN
    IF \E k \in 1 .. Len(elf.relaTable) : c = RelaCells(k)
    THEN elf.relaTable[CHOOSE k \in 1 .. Len(elf.relaTable) : c = RelaCells(k)]
    ELSE [r_offset |-> 0, r_type |-> "R_OTHER", r_addend |-> 0]

\* parse: the compatibility checks on the header
header_compatible(header) ==
    /\ header.e_class = "ELFCLASS64"
    /\ header.e_data = "ELFDATA2LSB"
    /\ header.e_type \in {"ET_DYN", "ET_EXEC"}
    /\ header.e_machine = ELF_ARCH

\* parse: the entries of the PT_DYNAMIC segment, none without such a segment
dyns_of(elf) ==
    LET d == find(elf.phs, "PT_DYNAMIC") IN
    IF d = 0 THEN [status |-> "ok", entries |-> <<>>]
    ELSE LET start == elf.phs[d].p_offset
             len == elf.phs[d].p_filesz \div SIZEOF_DYN
         IN IF slice_fits(elf.cells, start, len, SIZEOF_DYN)
            THEN [status |-> "ok",
                  entries |-> [k \in 1 .. len |->
                                  Dyn_from_bytes(elf, start + SIZEOF_DYN * (k - 1))]]
            ELSE [status |-> "abort", entries |-> <<>>]

\* goblin's vm_to_offset: the file offset of a virtual address, through the
\* first PT_LOAD header whose memory range holds it
vm_to_offset(phs, address) ==
    LET holds(i) == /\ phs[i].p_type = "PT_LOAD"
                    /\ address >= phs[i].p_vaddr
                    /\ address - phs[i].p_vaddr < phs[i].p_memsz
    IN IF \E i \in 1 .. Len(phs) : holds(i)
       THEN LET i == CHOOSE i \in 1 .. Len(phs) :
                        holds(i) /\ \A j \in 1 .. (i - 1) : ~holds(j)
            IN phs[i].p_offset + (address - phs[i].p_vaddr)
       ELSE 0

\* goblin's DynamicInfo::new(dyns, phs): each entry in turn updates the
\* field its tag names
RECURSIVE DynamicInfo_new(_, _, _, _)
DynamicInfo_new(info, dyns, phs, k) ==
    IF k > Len(dyns) THEN info
    ELSE LET d == dyns[k] IN
         DynamicInfo_new(
            CASE d.d_tag = "DT_RELA" -> [info EXCEPT !.rela = vm_to_offset(phs, d.d_val)]
              [] d.d_tag = "DT_RELASZ" -> [info EXCEPT !.relasz = d.d_val]
              [] d.d_tag = "DT_RELAENT" -> [info EXCEPT !.relaent = d.d_val]
              [] d.d_tag = "DT_RELACOUNT" -> [info EXCEPT !.relacount = d.d_val]
              [] d.d_tag = "DT_RELCOUNT" -> [info EXCEPT !.relcount = d.d_val]
              [] OTHER -> info,
            dyns, phs, k + 1)

DynamicInfo_default ==
    [rela |-> 0, relasz |-> 0, relaent |-> 0, relacount |-> 0, relcount |-> 0]

\* parse: the test for libraries made on the first dynamic entry only
linked_first_entry_only(dyns) == Len(dyns) > 0 /\ dyns[1].d_tag = "DT_NEEDED"

\* parse: dyns.iter().any(|d| d.d_tag == dynamic::DT_NEEDED)
linked_against_libraries(dyns) == \E k \in 1 .. Len(dyns) : dyns[k].d_tag = "DT_NEEDED"

\* a parse that accepts relocations of any kind
all_relative_unchecked(relas) == TRUE

\* parse: relas.iter().all(|rela| r_type(rela.r_info) == arch::R_RELATIVE)
all_relative(relas) == \A k \in 1 .. Len(relas) : relas[k].r_type = "R_RELATIVE"

\* Object::parse(elf)
parse(elf) ==
    LET aborted == [status |-> "abort", elf |-> elf, header |-> elf.header,
                    phs |-> <<>>, relas |-> <<>>]
        dyns == dyns_of(elf)
        dynamic_info == DynamicInfo_new(DynamicInfo_default, dyns.entries, elf.phs, 1)
        relas == [k \in 1 .. dynamic_info.relacount |->
                    Rela_from_bytes(elf, dynamic_info.rela + SIZEOF_RELA * (k - 1))]
    IN  IF ~header_compatible(elf.header) THEN aborted
        ELSE IF dyns.status = "abort" THEN aborted
        ELSE IF linked_against_libraries(dyns.entries) THEN aborted
        ELSE IF dynamic_info.relcount # 0 THEN aborted
        ELSE IF ~slice_fits(elf.cells, dynamic_info.rela, dynamic_info.relacount,
                            SIZEOF_RELA)
            THEN aborted
        ELSE IF ~all_relative(relas) THEN aborted
        ELSE [status |-> "ok", elf |-> elf, header |-> elf.header,
              phs |-> elf.phs, relas |-> relas]

\* the end address mem_size takes from the last PT_LOAD header, without the
\* segment's in-memory size
end_addr_without_memsz(last_ph) == last_ph.p_vaddr

\* mem_size: last_ph.p_vaddr + last_ph.p_memsz
end_addr(last_ph) == last_ph.p_vaddr + last_ph.p_memsz

\* Object::mem_size(): the outcomes of the call.  end_addr - start_addr is an
\* unsigned subtraction: below zero it panics in a build with overflow
\* checks and wraps around the word in a build without.
mem_size(obj) ==
    LET first_ph == find(obj.phs, "PT_LOAD")
        last_ph == rev_find(obj.phs, "PT_LOAD")
        start_addr == obj.phs[first_ph].p_vaddr
        diff == end_addr(obj.phs[last_ph]) - start_addr
    IN  IF first_ph = 0 THEN {[status |-> "abort", value |-> 0]}
        ELSE IF diff >= 0 THEN {[status |-> "ok", value |-> diff]}
        ELSE {[status |-> "abort", value |-> 0], [status |-> "ok", value |-> diff % WORD]}

\* i64::to_ne_bytes on the little-endian target: the n low bytes of v, least
\* significant first (two's complement for a negative v)
RECURSIVE to_ne_bytes(_, _)
to_ne_bytes(v, n) == IF n = 0 THEN <<>> ELSE <<v % 256>> \o to_ne_bytes(v \div 256, n - 1)

\* MaybeUninit::write_slice(&mut bytes[start..][..Len(src)], src)
write_slice(bytes, start, src) ==
    [i \in 1 .. Len(bytes) |->
        IF i > start /\ i <= start + Len(src) THEN src[i - start] ELSE bytes[i]]

\* load_kernel: the segment placed where it starts in the file instead of at
\* its offset from the load start
mem_start_from_file(ph, load_start_addr) == ph.p_offset

\* load_kernel: ph.p_vaddr - load_start_addr
mem_start_of(ph, load_start_addr) == ph.p_vaddr - load_start_addr

\* load_kernel: one PT_LOAD header.  The three slices are taken before the
\* first byte is written; each panics when out of range, and so does, one
\* way or the other, a mem_start below zero.
load_segment(st, obj, ph, load_start_addr) ==
    LET mem_start == mem_start_of(ph, load_start_addr)
        mem_len == ph.p_memsz
        file_len == ph.p_filesz
        len == Len(st.bytes)
        elf_len == Len(obj.elf.cells)
    IN  IF \/ mem_start < 0
           \/ mem_start > len
           \/ mem_len > len - mem_start
           \/ ph.p_offset > elf_len
           \/ file_len > elf_len - ph.p_offset
           \/ file_len > mem_len
        THEN [st EXCEPT !.status = "abort"]
        ELSE [st EXCEPT !.bytes =
                write_slice(
                    write_slice(st.bytes, mem_start,
                                SubSeq(obj.elf.cells, ph.p_offset + 1, ph.p_offset + file_len)),
                    mem_start + file_len, [j \in 1 .. (mem_len - file_len) |-> 0])]

RECURSIVE load_segments(_, _, _, _)
load_segments(st, obj, load_start_addr, i) ==
    IF i > Len(obj.phs) \/ st.status = "abort" THEN st
    ELSE load_segments(
            IF obj.phs[i].p_type = "PT_LOAD"
            THEN load_segment(st, obj, obj.phs[i], load_start_addr)
            ELSE st,
            obj, load_start_addr, i + 1)

\* load_kernel: the relocation written at its own address plus the addend
\* instead of the buffer's
relocated_from_target(kernel_addr, rela) == rela.r_offset + rela.r_addend

\* load_kernel: kernel_addr + rela.r_addend
relocated_value(kernel_addr, rela) == kernel_addr + rela.r_addend

\* load_kernel: one relocation; the arm of any other kind is unreachable!()
relocate(st, kernel_addr, rela) ==
    IF rela.r_type # "R_RELATIVE"
    THEN [st EXCEPT !.status = "abort", !.unreachable = TRUE]
    ELSE IF \/ rela.r_offset > Len(st.bytes)
            \/ SIZEOF_I64 > Len(st.bytes) - rela.r_offset
        THEN [st EXCEPT !.status = "abort"]
        ELSE [st EXCEPT !.bytes =
                write_slice(st.bytes, rela.r_offset,
                            to_ne_bytes(relocated_value(kernel_addr, rela), SIZEOF_I64))]

RECURSIVE relocate_all(_, _, _, _)
relocate_all(st, obj, kernel_addr, i) ==
    IF i > Len(obj.relas) \/ st.status = "abort" THEN st
    ELSE relocate_all(relocate(st, kernel_addr, obj.relas[i]), obj, kernel_addr, i + 1)

None == [some |-> FALSE]
Some(v) == [some |-> TRUE, value |-> v]

\* a TlsInfo whose start is the header's address whatever the image type
TlsInfo_new_unadjusted(header, ph, start_addr) ==
    [start |-> ph.p_vaddr, filesz |-> ph.p_filesz, memsz |-> ph.p_memsz,
     align |-> ph.p_align]

\* TlsInfo::new(header, ph, start_addr)
TlsInfo_new(header, ph, start_addr) ==
    [start |-> IF header.e_type = "ET_DYN" THEN ph.p_vaddr + start_addr ELSE ph.p_vaddr,
     filesz |-> ph.p_filesz, memsz |-> ph.p_memsz, align |-> ph.p_align]

NoLoadInfo == [elf_location |-> None, entry_point |-> 0, tls_info |-> None]

\* an elf_location reported for every image type
elf_location_always(header, load_start_addr) == Some(load_start_addr)

\* load_kernel: (e_type == ET_EXEC).then_some(load_start_addr)
elf_location_of(header, load_start_addr) ==
    IF header.e_type = "ET_EXEC" THEN Some(load_start_addr) ELSE None

\* a load_kernel without its assertion on the buffer's length
memory_unchecked(len, size) == TRUE

\* load_kernel: assert!(memory.len() >= self.mem_size())
memory_suffices(len, size) == len >= size

\* Object::load_kernel(memory), for one outcome size of its mem_size() call:
\* the bytes of the buffer afterwards and, unless it aborted, the LoadInfo
load_kernel(obj, base, bytes, size) ==
    LET st0 == [status |-> "ok", bytes |-> bytes, unreachable |-> FALSE]
        aborted(st) == [status |-> "abort", bytes |-> st.bytes, info |-> NoLoadInfo,
                        unreachable |-> st.unreachable]
        load_start_addr == obj.phs[find(obj.phs, "PT_LOAD")].p_vaddr
        tls == find(obj.phs, "PT_TLS")
    IN  IF size.status = "abort" \/ ~memory_suffices(Len(bytes), size.value)
        THEN aborted(st0)
        ELSE LET st1 == load_segments(st0, obj, load_start_addr, 1)
                 st2 == relocate_all(st1, obj, base, 1)
             IN IF st2.status = "abort" THEN aborted(st2)
                ELSE [status |-> "ok", bytes |-> st2.bytes, unreachable |-> FALSE,
                      info |->
                        [elf_location |-> elf_location_of(obj.header, load_start_addr),
                         entry_point |->
                            IF obj.header.e_type = "ET_DYN"
                            THEN obj.header.e_entry + base
                            ELSE obj.header.e_entry,
                         tls_info |->
                            IF tls = 0 THEN None
                            ELSE Some(TlsInfo_new(obj.header, obj.phs[tls], base))]]

---------------------------------------------------------------------------
(* Kernel images.  The file holds 32 data bytes 0x90, 0x91, ..., then room  *)
(* for MaxRelas relocation entries (unused room is zero), then the dynamic  *)
(* entries.  The loadable segments of the pool occupy pairwise disjoint     *)
(* memory ranges and take their file bytes from the data, except the one    *)
(* that holds the relocation table, as a linker emits them; the program     *)
(* headers list them in any order.                                          *)

FileData == [i \in 1 .. 32 |-> 143 + i]

Load(p_vaddr, p_memsz, p_filesz, p_offset) ==
    [p_type |-> "PT_LOAD", p_offset |-> p_offset, p_vaddr |-> p_vaddr,
     p_filesz |-> p_filesz, p_memsz |-> p_memsz, p_align |-> 4096]

\* 16 file bytes and 16 bytes of zero-initialised data at address 0
TextSegment == Load(0, 32, 16, 0)
\* the segment that holds the relocation table
RelaSegment == Load(96, SIZEOF_RELA * MaxRelas, SIZEOF_RELA * MaxRelas, Len(FileData))

LoadPool ==
    {TextSegment, Load(32, 8, 8, 16), Load(48, 16, 8, 24), Load(64, 8, 16, 0), RelaSegment}

\* the PT_LOAD headers of an image: up to MaxPhs segments of the pool
LoadSeqs ==
    {q \in UNION {[1 .. n -> LoadPool] : n \in 0 .. MaxPhs} :
        \A i, j \in 1 .. Len(q) : i # j => q[i] # q[j]}

TlsHeader ==
    [p_type |-> "PT_TLS", p_offset |-> 16, p_vaddr |-> 32, p_filesz |-> 8,
     p_memsz |-> 16, p_align |-> 8]

DynamicHeader(p_filesz) ==
    [p_type |-> "PT_DYNAMIC", p_offset |-> Len(FileData) + SIZEOF_RELA * MaxRelas,
     p_vaddr |-> 0, p_filesz |-> p_filesz, p_memsz |-> p_filesz, p_align |-> 8]

Header(e_type) ==
    [e_class |-> "ELFCLASS64", e_data |-> "ELFDATA2LSB", e_type |-> e_type,
     e_machine |-> ELF_ARCH, e_entry |-> 16]

HeaderInputs == {Header("ET_DYN"), Header("ET_EXEC")}

IncompatibleHeaders ==
    {[Header("ET_DYN") EXCEPT !.e_class = "ELFCLASS32"],
     [Header("ET_DYN") EXCEPT !.e_data = "ELFDATA2MSB"],
     Header("ET_REL"),
     [Header("ET_EXEC") EXCEPT !.e_machine = "EM_AARCH64"]}

\* relocation k targets the k-th 8-byte word after the first of the text
\* segment: one in the copied file bytes, the others in the zeroed part
Rela(k) == [r_offset |-> 8 * k, r_type |-> "R_RELATIVE", r_addend |-> 256 * k]

RelaTables ==
    {[k \in 1 .. n |-> Rela(k)] : n \in 0 .. MaxRelas}
        \cup {<<[Rela(1) EXCEPT !.r_type = "R_OTHER"]>>,
              <<[Rela(1) EXCEPT !.r_offset = 4096]>>,
              <<[Rela(1) EXCEPT !.r_addend = -8]>>}

Dyn(d_tag, d_val) == [d_tag |-> d_tag, d_val |-> d_val]

\* the dynamic entries a linker writes for a table of relasz bytes of which
\* it declares relacount entries relative
DynTable(relasz, relacount) ==
    <<Dyn("DT_RELA", RelaSegment.p_vaddr), Dyn("DT_RELASZ", relasz),
      Dyn("DT_RELAENT", SIZEOF_RELA), Dyn("DT_RELACOUNT", relacount), Dyn("DT_NULL", 0)>>

DynTables(relaTable) ==
    LET n == Len(relaTable)
        good == DynTable(SIZEOF_RELA * n, n)
    IN  {good,
         DynTable(SIZEOF_RELA * n, n + 1),
         DynTable(SIZEOF_RELA * n, IF n > 0 THEN n - 1 ELSE 0),
         <<Dyn("DT_NEEDED", 1)>> \o good,
         good \o <<Dyn("DT_NEEDED", 1)>>,
         <<Dyn("DT_RELCOUNT", 1)>> \o good}

\* the file content of an image with these tables
FileCells(dynTable, relaTable) ==
    FileData
        \o [i \in 1 .. SIZEOF_RELA * MaxRelas |->
                IF i <= SIZEOF_RELA * Len(relaTable)
                THEN RelaCells(((i - 1) \div SIZEOF_RELA) + 1)[((i - 1) % SIZEOF_RELA) + 1]
                ELSE 0]
        \o [i \in 1 .. SIZEOF_DYN * Len(dynTable) |->
                DynCells(((i - 1) \div SIZEOF_DYN) + 1)[((i - 1) % SIZEOF_DYN) + 1]]

Image(header, phs, dynTable, relaTable) ==
    [header |-> header, phs |-> phs, dynTable |-> dynTable, relaTable |-> relaTable,
     cells |-> FileCells(dynTable, relaTable)]

\* images without a dynamic segment: every order of segments, with and
\* without thread-local storage, and the incompatible headers
StaticImages ==
    {Image(h, q \o t, <<>>, <<>>) :
        h \in HeaderInputs, q \in LoadSeqs, t \in {<<>>, <<TlsHeader>>}}
    \cup {Image(h, <<TextSegment>>, <<>>, <<>>) : h \in IncompatibleHeaders}

\* images with a dynamic segment, which covers the whole dynamic table or
\* all but its last entry
DynamicImages ==
    UNION {
        {Image(h, q \o <<DynamicHeader(SIZEOF_DYN * (Len(d) - cut))>>, d, r) :
            h \in HeaderInputs,
            q \in {<<TextSegment, RelaSegment>>, <<TextSegment>>},
            d \in DynTables(r), cut \in {0, 1}} :
        r \in RelaTables}

ElfInputs == StaticImages \cup DynamicImages

BaseInputs == {4 * 4096, 8 * 4096}
FillInputs == {0, 170}

\* buffer lengths around what mem_size asks for
LenInputs(obj) ==
    {16} \cup
    {l \in UNION {{m.value - 1, m.value, m.value + 16} :
                    m \in {m \in mem_size(obj) : m.status = "ok"}} :
        l >= 0 /\ l <= 512}

ElfStarts(obj) == obj.status = "ok" /\ ~halted

\* Object::parse(elf)
Parse(elf) ==
    /\ ~halted
    /\ object = NoResult
    /\ \E obj \in {parse(elf)} :
        /\ object' = obj
        /\ halted' = (obj.status = "abort")
    /\ UNCHANGED <<CURRENT_ADDR, sized, memory, loadInfo, pagingVars, allocVars, concVars>>

\* object.mem_size()
MemSize ==
    /\ ElfStarts(object)
    /\ sized = NoResult
    /\ \E size \in mem_size(object) :
        /\ sized' = size
        /\ halted' = (size.status = "abort")
    /\ UNCHANGED <<CURRENT_ADDR, object, memory, loadInfo, pagingVars, allocVars, concVars>>

\* object.load_kernel(memory) into a buffer of len bytes at address base,
\* every byte of which holds fill
LoadKernel(base, fill) ==
    /\ ElfStarts(object)
    /\ loadInfo = NoResult
    /\ \E len \in LenInputs(object), size \in mem_size(object) :
        \E r \in {load_kernel(object, base, [i \in 1 .. len |-> fill], size)} :
            /\ memory' = [base |-> base, bytes |-> r.bytes,
                          before |-> [i \in 1 .. len |-> fill]]
            /\ loadInfo' = [status |-> r.status, info |-> r.info, size |-> size,
                            unreachable |-> r.unreachable]
            /\ halted' = (r.status = "abort")
    /\ UNCHANGED <<CURRENT_ADDR, object, sized, pagingVars, allocVars, concVars>>

NextElf ==
    \/ \E elf \in ElfInputs : Parse(elf)
    \/ MemSize
    \/ \E base \in BaseInputs, fill \in FillInputs : LoadKernel(base, fill)

SpecElf == Init /\ [][NextElf]_vars

---------------------------------------------------------------------------
(* Properties of the loader *)

Loadable(phs) == {i \in 1 .. Len(phs) : phs[i].p_type = "PT_LOAD"}

LowestStart(phs) ==
    CHOOSE a \in {phs[i].p_vaddr : i \in Loadable(phs)} :
        \A i \in Loadable(phs) : a <= phs[i].p_vaddr

HighestEnd(phs) ==
    CHOOSE a \in {phs[i].p_vaddr + phs[i].p_memsz : i \in Loadable(phs)} :
        \A i \in Loadable(phs) : phs[i].p_vaddr + phs[i].p_memsz <= a

\* the PT_LOAD headers appear in ascending order of address, each segment
\* ending before the next begins
Ascending(phs) ==
    \A i, j \in Loadable(phs) :
        i < j => phs[i].p_vaddr + phs[i].p_memsz <= phs[j].p_vaddr

MemSizeCalled == object.status = "ok" /\ Loadable(object.phs) # {} /\ sized # NoResult

\* C7 as stated: whatever the order of the program headers, mem_size()
\* returns the highest end of a loadable segment minus the lowest start.
C7_SpanAnyOrder ==
    MemSizeCalled =>
        /\ sized.status = "ok"
        /\ sized.value = HighestEnd(object.phs) - LowestStart(object.phs)

\* C7: mem_size() returns the end (p_vaddr + p_memsz) of the last PT_LOAD
\* header minus the start of the first whenever that is not negative, and
\* this is the highest end minus the lowest start when the PT_LOAD headers
\* appear in ascending order of address.
C7_SpanFirstToLast ==
    MemSizeCalled =>
        LET phs == object.phs
            first == phs[find(phs, "PT_LOAD")]
            last == phs[rev_find(phs, "PT_LOAD")]
        IN  /\ last.p_vaddr + last.p_memsz >= first.p_vaddr =>
                /\ sized.status = "ok"
                /\ sized.value = last.p_vaddr + last.p_memsz - first.p_vaddr
            /\ Ascending(phs) =>
                /\ sized.status = "ok"
                /\ sized.value = HighestEnd(phs) - LowestStart(phs)

C7_Witness ==
    /\ MemSizeCalled
    /\ Cardinality(Loadable(object.phs)) >= 2
    /\ Ascending(object.phs)
    /\ \E i \in Loadable(object.phs) : object.phs[i].p_vaddr > 0
    /\ sized.status = "ok"
    /\ sized.value = HighestEnd(object.phs) - LowestStart(object.phs)

Loaded == object.status = "ok" /\ loadInfo # NoResult /\ loadInfo.status = "ok"

\* C8: after load_kernel on an image without relocations, every loadable
\* segment has its p_filesz file bytes in the buffer from offset
\* p_vaddr - lowest p_vaddr on, followed by zeros up to p_memsz.
C8_SegmentLoad ==
    (Loaded /\ object.relas = <<>>) =>
        \A i \in Loadable(object.phs) :
            LET ph == object.phs[i]
                at == ph.p_vaddr - LowestStart(object.phs)
            IN  /\ at + ph.p_memsz <= Len(memory.bytes)
                /\ \A j \in 1 .. ph.p_filesz :
                        memory.bytes[at + j] = object.elf.cells[ph.p_offset + j]
                /\ \A j \in (ph.p_filesz + 1) .. ph.p_memsz : memory.bytes[at + j] = 0

\* two segments loaded over a buffer of non-zero bytes, the second above the
\* load start and the first with 16 file bytes followed by 16 zero bytes
C8_Witness ==
    /\ Loaded /\ object.relas = <<>>
    /\ Cardinality(Loadable(object.phs)) >= 2
    /\ object.phs[1] = TextSegment
    /\ object.phs[2].p_type = "PT_LOAD" /\ object.phs[2].p_vaddr > 0
    /\ \A j \in 1 .. Len(memory.before) : memory.before[j] = 170
    /\ SubSeq(memory.bytes, 1, 32) = SubSeq(FileData, 1, 16) \o [j \in 1 .. 16 |-> 0]

\* the 8 bytes of a word 0 <= v < 2^31, least significant first
LittleEndian(v) ==
    <<v % 256, (v \div 256) % 256, (v \div 65536) % 256, (v \div 16777216) % 256,
      0, 0, 0, 0>>

\* C9: after load_kernel returns, the 8 buffer bytes at every relocation's
\* target offset hold the buffer's base address plus the addend, least
\* significant byte first.
C9_Relocation ==
    Loaded =>
        \A k \in 1 .. Len(object.relas) :
            LET rela == object.relas[k] IN
            /\ rela.r_offset + 8 <= Len(memory.bytes)
            /\ SubSeq(memory.bytes, rela.r_offset + 1, rela.r_offset + 8)
                    = LittleEndian(memory.base + rela.r_addend)

\* base 0x4000, addend 0x100, offset 8: 0x4100 over the copied file bytes
C9_Witness ==
    /\ Loaded
    /\ Len(object.relas) >= 1
    /\ object.relas[1] = [r_offset |-> 8, r_type |-> "R_RELATIVE", r_addend |-> 256]
    /\ memory.base = 16384
    /\ object.phs[1] = TextSegment
    /\ SubSeq(memory.bytes, 1, 16) = SubSeq(FileData, 1, 8) \o <<0, 65, 0, 0, 0, 0, 0, 0>>

\* the image's dynamic section, the first PT_DYNAMIC segment, holds a
\* DT_NEEDED entry within its p_filesz bytes
DeclaresNeeded(elf) ==
    LET d == find(elf.phs, "PT_DYNAMIC") IN
    /\ d # 0
    /\ \E k \in 1 .. Len(elf.dynTable) :
        /\ elf.dynTable[k].d_tag = "DT_NEEDED"
        /\ SIZEOF_DYN * k <= elf.phs[d].p_filesz

\* C10: parse aborts, returning no Object, on every image whose dynamic
\* section holds a DT_NEEDED entry.
C10_NeededRejected ==
    (object # NoResult /\ DeclaresNeeded(object.elf)) =>
        /\ object.status = "abort"
        /\ halted

\* an image that is otherwise accepted, the DT_NEEDED entry being the last
\* of its dynamic section
C10_Witness ==
    /\ object # NoResult
    /\ DeclaresNeeded(object.elf)
    /\ object.elf.dynTable[1].d_tag # "DT_NEEDED"
    /\ parse([object.elf EXCEPT !.dynTable[Len(object.elf.dynTable)].d_tag = "DT_NULL"]).status
            = "ok"
    /\ object.status = "abort"

\* the explicit-addend relocation count the image's dynamic section
\* declares: the value of its last DT_RELACOUNT entry, 0 without one
DeclaredRelacount(elf) ==
    LET d == find(elf.phs, "PT_DYNAMIC")
        ks == {k \in 1 .. Len(elf.dynTable) :
                /\ elf.dynTable[k].d_tag = "DT_RELACOUNT"
                /\ SIZEOF_DYN * k <= elf.phs[d].p_filesz}
    IN  IF d = 0 \/ ks = {} THEN 0
        ELSE elf.dynTable[CHOOSE k \in ks : \A j \in ks : j <= k].d_val

\* C11: parse aborts whenever the relocation count the dynamic section
\* declares differs from the number of entries of the relocation table; an
\* Object is returned only when the two are equal.
C11_CountMismatchRejected ==
    (object # NoResult /\ DeclaredRelacount(object.elf) # Len(object.elf.relaTable)) =>
        object.status = "abort"

---------------------------------------------------------------------------
(* Properties of the entries a map call writes *)

MapReturned == call.op = "map" /\ call.status = "ok"

\* C12: whatever flags the caller supplies, every leaf entry installed by
\* map<S> has PRESENT, ACCESSED and DIRTY set, and has HUGE_PAGE set if and
\* only if S is the 2 MiB size.
C12_ForcedFlags ==
    call.op = "map" =>
        \A k \in 1 .. Len(call.installed) :
            LET e == call.installed[k].entry IN
            /\ contains(e, PRESENT) /\ contains(e, ACCESSED) /\ contains(e, DIRTY)
            /\ contains(e, HUGE_PAGE) <=> (call.S = LargePageSize)

---------------------------------------------------------------------------
(* Properties of the allocator's preconditions *)

InitCalledBefore(i) == \E k \in 1 .. (i - 1) : allocLog[k].op = "init"

\* C13: allocate(size) called before any init, or with a size that is 0 or
\* not a multiple of 4096, aborts, returns no address and leaves the cursor
\* unchanged.
C13_AllocateRejects ==
    \A i \in 1 .. Len(allocLog) :
        (/\ allocLog[i].op = "allocate"
         /\ \/ ~InitCalledBefore(i)
            \/ allocLog[i].arg = 0
            \/ allocLog[i].arg % 4096 # 0) =>
            /\ allocLog[i].status = "abort"
            /\ allocLog[i].post = allocLog[i].pre
            /\ i = Len(allocLog) /\ halted

\* the first call of the boot is an allocate of one page
C13_Witness ==
    /\ Len(allocLog) = 1
    /\ allocLog[1].op = "allocate"
    /\ allocLog[1].arg = BasePageSize_SIZE
    /\ allocLog[1].status = "abort"
    /\ CURRENT_ADDR = 0

\* C14: in the load result of a position-independent image (ET_DYN) the
\* entry point is e_entry plus the buffer's base and the TLS start is the
\* PT_TLS header's p_vaddr plus the base; for a fixed-address image (ET_EXEC)
\* both are unchanged.  TLS filesz, memsz and align are the header's, and
\* tls_info is absent iff there is no PT_TLS header.
C14_BaseAdjustment ==
    Loaded =>
        LET phs == object.phs
            pic == object.header.e_type = "ET_DYN"
            delta == IF pic THEN memory.base ELSE 0
            tls == {i \in 1 .. Len(phs) : phs[i].p_type = "PT_TLS"}
            info == loadInfo.info
        IN  /\ object.header.e_type \in {"ET_DYN", "ET_EXEC"}
            /\ info.entry_point = object.header.e_entry + delta
            /\ info.tls_info.some <=> tls # {}
            /\ tls # {} =>
                LET ph == phs[CHOOSE i \in tls : \A j \in tls : i <= j] IN
                info.tls_info.value =
                    [start |-> ph.p_vaddr + delta, filesz |-> ph.p_filesz,
                     memsz |-> ph.p_memsz, align |-> ph.p_align]

\* a position-independent image with thread-local storage, loaded
C14_Witness ==
    /\ Loaded
    /\ object.header.e_type = "ET_DYN"
    /\ loadInfo.info.tls_info.some
    /\ loadInfo.info.tls_info.value.start = TlsHeader.p_vaddr + memory.base
    /\ loadInfo.info.entry_point = object.header.e_entry + memory.base
    /\ memory.base > 0

\* C15: load_kernel reports elf_location iff the image is fixed-address
\* (ET_EXEC), and then it is the lowest loadable segment's virtual address.
C15_FixedLoadAddress ==
    Loaded =>
        /\ loadInfo.info.elf_location.some <=> object.header.e_type = "ET_EXEC"
        /\ loadInfo.info.elf_location.some =>
                loadInfo.info.elf_location.value = LowestStart(object.phs)

\* a fixed-address image of two segments, the lower one above address 0
C15_Witness ==
    /\ Loaded
    /\ object.header.e_type = "ET_EXEC"
    /\ Cardinality(Loadable(object.phs)) >= 2
    /\ LowestStart(object.phs) > 0
    /\ loadInfo.info.elf_location = Some(LowestStart(object.phs))

LoadCalled == object.status = "ok" /\ loadInfo # NoResult

\* C16: load_kernel called with a buffer shorter than mem_size() aborts
\* before writing any byte of the buffer and produces no load result.
C16_TooSmallRejected ==
    (/\ LoadCalled
     /\ loadInfo.size.status = "ok"
     /\ Len(memory.before) < loadInfo.size.value) =>
        /\ loadInfo.status = "abort"
        /\ halted
        /\ memory.bytes = memory.before
        /\ loadInfo.info = NoLoadInfo

\* two segments in ascending order and a buffer one byte short of their span
C16_Witness ==
    /\ LoadCalled
    /\ Cardinality(Loadable(object.phs)) >= 2
    /\ Ascending(object.phs)
    /\ loadInfo.size = [status |-> "ok",
                        value |-> HighestEnd(object.phs) - LowestStart(object.phs)]
    /\ Len(memory.before) = loadInfo.size.value - 1
    /\ loadInfo.status = "abort"

\* C17: at each level above the page's target level, if the indexed entry
\* is not present exactly one 4 KiB frame is taken from the allocator, the
\* entry is set present and writable pointing at it and every entry of the
\* new subtable is zero before the walk descends into it; if the entry is
\* present no frame is taken and the entry is left unchanged.
C17_OnDemandSubtables ==
    call.op = "map" =>
        \A k \in 1 .. Len(call.descents) :
            LET d == call.descents[k] IN
            d.status = "ok" =>
                IF d.was_present
                THEN /\ d.taken = 0
                     /\ d.cur_after = d.cur_before
                     /\ d.after = d.before
                ELSE /\ d.taken = 1
                     /\ d.cur_after = d.cur_before + 4096
                     /\ d.after # Unknown
                     /\ contains(d.after, PRESENT) /\ contains(d.after, WRITABLE)
                     /\ AddrField(d.after) = d.cur_before
                     /\ d.next = d.cur_before
                     /\ d.cur_before \in DOMAIN d.mem
                     /\ \A i \in Indices : d.mem[d.cur_before][i] = 0

\* two pages mapped by one call: the subtables made for the first are found
\* present for the second
C17_Witness ==
    /\ MapReturned
    /\ call.count = 2
    /\ Len(call.created) >= 2
    /\ \E k \in 1 .. Len(call.descents) :
        ~call.descents[k].was_present /\ call.descents[k].level = 3
    /\ \E k \in 1 .. Len(call.descents) :
        /\ call.descents[k].was_present /\ call.descents[k].level = 3
        /\ call.descents[k].taken = 0

\* C18: in any sequence of map calls mixing the two page sizes, the walk
\* for a page never descends through an entry that holds a present
\* huge-page mapping.
C18_HugeNeverDescended ==
    call.op = "map" =>
        \A k \in 1 .. Len(call.descents) :
            LET e == call.descents[k].before IN
            ~(e # Unknown /\ is_present(e) /\ contains(e, HUGE_PAGE))

LevelsOf(S) == IF S = LargePageSize THEN <<3, 2, 1>> ELSE <<3, 2, 1, 0>>

\* C19: map with the 2 MiB size visits levels 3, 2, 1 in that order and
\* installs the mapping in the level-1 table, never reaching level 0; map
\* with the 4 KiB size visits 3, 2, 1, 0 and installs at level 0; the
\* assertions on the level never fail.
C19_HugePageTermination ==
    call.op = "map" =>
        /\ ~call.level_failed
        /\ \A k \in 1 .. Len(call.installed) :
            /\ call.installed[k].path = LevelsOf(call.S)
            /\ call.installed[k].level = (IF call.S = LargePageSize THEN 1 ELSE 0)
        /\ \A k \in 1 .. Len(call.descents) :
            call.descents[k].level > (IF call.S = LargePageSize THEN 1 ELSE 0)
        /\ call.status = "ok" =>
            /\ Len(call.installed) = call.count
            /\ call.visited = LevelsOf(call.S)

\* a completed 2 MiB call of two pages after a completed 4 KiB call
C19_Witness ==
    /\ MapReturned
    /\ call.S = LargePageSize /\ call.count = 2
    /\ prev.op = "map" /\ prev.status = "ok" /\ prev.S = BasePageSize
    /\ Len(call.installed) = 2
    /\ call.installed[2].path = <<3, 2, 1>>

\* the tables the processor's walk can reach from the root, each with the
\* level at which it is reached
RECURSIVE ReachableTables(_, _)
ReachableTables(m, seen) ==
    LET pointers(f) == {i \in Indices :
                            /\ m[f][i] # Unknown
                            /\ is_present(m[f][i])
                            /\ ~contains(m[f][i], HUGE_PAGE)}
        more == UNION {{<<AddrField(m[t[1]][i]), t[2] - 1>> : i \in pointers(t[1])} :
                        t \in {u \in seen : u[2] >= 1 /\ u[1] \in DOMAIN m}}
    IN  IF more \subseteq seen THEN seen ELSE ReachableTables(m, seen \cup more)

\* an entry is unused (all zero), or present with an address on the boundary
\* of the page size it maps and no bit between the flags and the address
EntryValid(e) ==
    \/ e = 0
    \/ /\ e # Unknown
       /\ is_present(e)
       /\ (e % BasePageSize_SIZE) < 2 * 256
       /\ contains(e, HUGE_PAGE) => AddrField(e) % LargePageSize_SIZE = 0

\* C20: after any sequence of completed map calls, every entry of every
\* table reachable from the root is all zero or present with an address
\* aligned to the page size it maps.
C20_EntryInvariant ==
    ~halted =>
        \A t \in ReachableTables(mem, {<<RootFrame, 3>>}) :
            /\ t[1] \in DOMAIN mem
            /\ \A i \in Indices : EntryValid(mem[t[1]][i])

\* a completed 4 KiB call and a completed 2 MiB call, in either order
C20_Witness ==
    /\ ~halted
    /\ MapReturned /\ prev.op = "map" /\ prev.status = "ok"
    /\ call.S # prev.S
    /\ Cardinality(ReachableTables(mem, {<<RootFrame, 3>>})) >= 6
    /\ \E t \in ReachableTables(mem, {<<RootFrame, 3>>}) :
        \E i \in Indices : contains(mem[t[1]][i], HUGE_PAGE)

\* C21: every relocation of an object parse returned has the architecture's
\* relative kind, and load_kernel on it applies each through the relative
\* arm: it never reaches the unreachable arm.
C21_NoUnreachableKind ==
    /\ object.status = "ok" =>
            \A k \in 1 .. Len(object.relas) : object.relas[k].r_type = "R_RELATIVE"
    /\ LoadCalled => ~loadInfo.unreachable

\* a load that applied every relocation of a table as long as the image pool
\* allows
C21_Witness ==
    /\ Loaded
    /\ Len(object.relas) = MaxRelas
    /\ ~loadInfo.unreachable
    /\ \A k \in 1 .. Len(object.relas) :
            SubSeq(memory.bytes, object.relas[k].r_offset + 1,
                   object.relas[k].r_offset + SIZEOF_I64)
                = to_ne_bytes(memory.base + object.relas[k].r_addend, SIZEOF_I64)

\* the calls that handed out memory, and the range each handed out
Granted(i) == allocLog[i].op \in {"allocate", "allocate_frame"} /\ allocLog[i].status = "ok"
Disjoint(i, j) ==
    \/ allocLog[i].ret + allocLog[i].arg <= allocLog[j].ret
    \/ allocLog[j].ret + allocLog[j].arg <= allocLog[i].ret

\* C23: allocate_frame for page size S called with a non-zero cursor c
\* returns the smallest S-aligned address >= c and leaves the cursor at that
\* address + S; the frame is disjoint from every allocation made before and
\* after it since the last init.
C23_FrameAllocation ==
    \A i \in 1 .. Len(allocLog) :
        (allocLog[i].op = "allocate_frame" /\ allocLog[i].pre # 0) =>
            /\ allocLog[i].status = "ok"
            /\ allocLog[i].ret % allocLog[i].arg = 0
            /\ allocLog[i].ret >= allocLog[i].pre
            /\ allocLog[i].ret - allocLog[i].pre < allocLog[i].arg
            /\ allocLog[i].post = allocLog[i].ret + allocLog[i].arg
            /\ \A j \in 1 .. Len(allocLog) :
                    (/\ j # i /\ Granted(j)
                     /\ SameInit(IF i < j THEN i ELSE j, IF i < j THEN j ELSE i)) =>
                        Disjoint(i, j)

\* a 2 MiB frame rounded up from a cursor that an allocate left unaligned,
\* between an allocate and a 4 KiB frame
C23_Witness ==
    /\ Len(allocLog) = 4
    /\ allocLog[1].op = "init" /\ allocLog[1].arg % BasePageSize_SIZE # 0
    /\ Returned(2)
    /\ allocLog[3].op = "allocate_frame" /\ allocLog[3].status = "ok"
    /\ allocLog[3].arg = LargePageSize_SIZE
    /\ allocLog[3].ret > allocLog[3].pre
    /\ allocLog[4].op = "allocate_frame" /\ allocLog[4].status = "ok"
    /\ allocLog[4].arg = BasePageSize_SIZE
    /\ allocLog[4].ret = allocLog[3].ret + LargePageSize_SIZE

\* the buffer offsets (from 1) that no loadable segment of the image covers
GapOffsets(phs, len) ==
    {j \in 1 .. len :
        \A i \in Loadable(phs) :
            LET at == phs[i].p_vaddr - phs[find(phs, "PT_LOAD")].p_vaddr
            IN  ~(at < j /\ j <= at + phs[i].p_memsz)}

\* C22: after load_kernel on a buffer of length mem_size(), every byte of the
\* buffer in a gap between loadable segments is zero, whatever the buffer
\* held before.
C22_NoStaleBytes ==
    (/\ Loaded
     /\ loadInfo.size.status = "ok"
     /\ Len(memory.bytes) = loadInfo.size.value) =>
        \A j \in GapOffsets(object.phs, Len(memory.bytes)) : memory.bytes[j] = 0

\* the table of level target that holds the entry for va, reached from the
\* table of level L in frame through subtable pointers
RECURSIVE TableFor(_, _, _, _, _)
TableFor(m, frame, va, L, target) ==
    LET e == ReadEntry(m, frame, table_index(va, L))
    IN  IF L = target THEN frame
        ELSE IF e = Unknown THEN Fault
        ELSE IF ~is_present(e) \/ contains(e, HUGE_PAGE) THEN Fault
        ELSE TableFor(m, AddrField(e), va, L - 1, target)

\* the pages of the last call
CallPages ==
    {PageOf(call.S, call.virtual_address) + i * SIZE(call.S) : i \in 0 .. call.count - 1}

\* the slots <<frame, index>> of the leaf entries of the call's pages
LeafSlots ==
    {<<TableFor(mem, RootFrame, p, 3, MAP_LEVEL(call.S)), table_index(p, MAP_LEVEL(call.S))>> :
        p \in CallPages}

\* the slots above the leaf entries that were not present before the call
FilledSlots ==
    {sl \in UNION {{<<TableFor(mem, RootFrame, p, 3, L), table_index(p, L)>> :
                        L \in (MAP_LEVEL(call.S) + 1) .. 3} : p \in CallPages} :
        /\ sl[1] \in DOMAIN call.preMem
        /\ ~is_present(call.preMem[sl[1]][sl[2]])}

\* C24: a completed map<S>(V, P, count, flags) changes only the leaf entries
\* of its count pages and the intermediate entries, not present before, that
\* it fills on the way; every other entry of every table that existed before
\* is unchanged, the only memory written besides is that of the subtables
\* created, and the cursor advances by 4096 times their number.
C24_MapFrame ==
    (call.op = "map" /\ call.status = "ok") =>
        /\ \A f \in DOMAIN call.preMem :
                /\ f \in DOMAIN mem
                /\ \A i \in Indices :
                        mem[f][i] # call.preMem[f][i] =>
                            <<f, i>> \in LeafSlots \cup FilledSlots
        /\ (DOMAIN mem) \ (DOMAIN call.preMem)
                = {call.created[k] : k \in 1 .. Len(call.created)}
        /\ CURRENT_ADDR = call.preCur + BasePageSize_SIZE * Len(call.created)

====
